---- MODULE Spec2Model ----
(***************************************************************************)
(* Guided Component Architect: the deterministic design-system validator   *)
(* (validator.py) and the self-correcting generation loop (agent_loop.py). *)
(*                                                                         *)
(* A source text is a sequence of characters; a character is a one-letter  *)
(* string.  Python indexes are 0-based, so code[k] is At(code, k).         *)
(*                                                                         *)
(* Three specifications share the variables:                               *)
(*   Spec        validate_syntax, one loop iteration per step              *)
(*   SpecReport  validate_component, one statement per step                *)
(*   SpecLoop    run_agent_loop, calling validate_component                *)
(***************************************************************************)
EXTENDS Integers, Sequences, FiniteSets, TLC

VARIABLES
    code,       \* the source text (validate_syntax, validate_component, run_agent_loop)
    tokens,     \* the design tokens
    i,          \* validate_syntax: scan position (0-based)
    line,       \* validate_syntax: running line counter
    stack,      \* validate_syntax: list of (opener_char, line_number)
    errors,     \* validate_syntax: diagnostics emitted so far
    quote,      \* validate_syntax: the quote character of the string being skipped
    pc,         \* validate_syntax: which loop the scanner is in
    stackPos,   \* history: for each stack entry, the position of its opener
    errPos,     \* history: for each error, <<position of closer, position of opener>>
    v_pc,       \* validate_component: the next statement
    v_errors,   \* validate_component: errors
    v_warnings, \* validate_component: warnings
    report,     \* the report validate_component returned last
    l_pc,       \* run_agent_loop: the next statement
    attempt,    \* run_agent_loop: the for loop's variable (0 before the loop)
    max_retries, \* run_agent_loop: parameter
    verbose,    \* run_agent_loop: parameter
    result,     \* run_agent_loop: the returned values (empty until it returns)
    n_generate, \* history: calls of generate_component
    n_regenerate, \* history: calls of regenerate_component
    n_validate, \* history: calls of validate_component
    regen_args, \* history: the arguments of the last regenerate_component call
    stderr,     \* what _log, _log_errors and _log_warnings printed
    h_pc,       \* _normalise_hex calls: which call comes next
    h_in,       \* a hex literal as hex_pattern matches it
    h_once,     \* _normalise_hex(h_in)
    h_twice,    \* _normalise_hex(_normalise_hex(h_in))
    h_expanded  \* _normalise_hex of the 6-digit expansion of a 3-digit literal

scanOnly == <<i, line, stack, errors, quote, pc, stackPos, errPos>>
validatorVars == <<v_pc, v_errors, v_warnings, report>>
counters == <<n_generate, n_regenerate, n_validate>>
loopVars ==
    <<l_pc, attempt, max_retries, verbose, result, counters, regen_args, stderr>>
hexVars == <<h_pc, h_in, h_once, h_twice, h_expanded>>
vars == <<code, tokens, scanOnly, validatorVars, loopVars, hexVars>>

(***************************************************************************)
(* Characters                                                              *)
(***************************************************************************)
NL == "\n"
BACKSLASH == "\\"
SQUOTE == "'"
DQUOTE == "\""
\* The backtick cannot be written inside a TLA+ string; this token stands for it.
BACKTICK == "BACKTICK"
SPACE == " "

At(c, k) == c[k + 1]

\* Number of newline characters in c[0 .. k-1].
RECURSIVE NewlinesBefore(_, _)
NewlinesBefore(c, k) ==
    IF k <= 0 THEN 0
    ELSE NewlinesBefore(c, k - 1) + (IF At(c, k - 1) = NL THEN 1 ELSE 0)

(***************************************************************************)
(* Diagnostics.  A message is modelled by its category tag, the sub-reason *)
(* and the values interpolated into the f-string.                          *)
(***************************************************************************)
Diag(cat, kind, text, ln, opener, oln) ==
    [cat |-> cat, kind |-> kind, text |-> text, line |-> ln,
     opener |-> opener, opener_line |-> oln]

(***************************************************************************)
(* validate_syntax: the bracket balance scanner                            *)
(***************************************************************************)
openers == ("(" :> ")") @@ ("{" :> "}") @@ ("[" :> "]")
closers == (")" :> "(") @@ ("}" :> "{") @@ ("]" :> "[")
Quotes == {SQUOTE, DQUOTE, BACKTICK}

ScanInit ==
    [pc |-> "outer", i |-> 0, line |-> 1, stack |-> <<>>, errors |-> <<>>,
     quote |-> "", stackPos |-> <<>>, errPos |-> <<>>]

UnexpectedCloser(ch, ln) == Diag("SYNTAX_ERROR", "unexpected", <<ch>>, ln, <<>>, 0)
Mismatched(ch, ln, oc, oln) == Diag("SYNTAX_ERROR", "mismatched", <<ch>>, ln, <<oc>>, oln)
Unclosed(oc, oln) == Diag("SYNTAX_ERROR", "unclosed", <<>>, 0, <<oc>>, oln)

\* if ch == "\n": line += 1; i += 1; continue
OnNewline(s) == [s EXCEPT !.line = @ + 1, !.i = @ + 1]

\* if ch in ("'", '"', "`"): quote = ch; i += 1; (enter the skip loop)
OnQuote(c, s) == [s EXCEPT !.quote = At(c, s.i), !.i = @ + 1, !.pc = "string"]

\* (variant: the backslash does not take the next character with it)
StringIterNoEscape(c, s) ==
    IF ~(s.i < Len(c)) THEN [s EXCEPT !.pc = "outer"]
    ELSE LET ln == IF At(c, s.i) = NL THEN s.line + 1 ELSE s.line IN
         IF At(c, s.i) = s.quote
         THEN [s EXCEPT !.line = ln, !.i = @ + 1, !.pc = "outer"]
         ELSE [s EXCEPT !.line = ln, !.i = @ + 1]

\* (variant: the backslash takes the next character even at the end of the input)
StringIterUnguardedEscape(c, s) ==
    IF ~(s.i < Len(c)) THEN [s EXCEPT !.pc = "outer"]
    ELSE LET ln == IF At(c, s.i) = NL THEN s.line + 1 ELSE s.line IN
         IF At(c, s.i) = BACKSLASH
         THEN [s EXCEPT !.line = ln, !.i = @ + 2]
         ELSE IF At(c, s.i) = s.quote
         THEN [s EXCEPT !.line = ln, !.i = @ + 1, !.pc = "outer"]
         ELSE [s EXCEPT !.line = ln, !.i = @ + 1]

\* one evaluation of the string skip loop: its condition and, if true, its body
StringIter(c, s) ==
    IF ~(s.i < Len(c)) THEN [s EXCEPT !.pc = "outer"]
    ELSE LET ln == IF At(c, s.i) = NL THEN s.line + 1 ELSE s.line IN
         IF At(c, s.i) = BACKSLASH /\ s.i + 1 < Len(c)
         THEN [s EXCEPT !.line = ln, !.i = @ + 2]
         ELSE IF At(c, s.i) = s.quote
         THEN [s EXCEPT !.line = ln, !.i = @ + 1, !.pc = "outer"]
         ELSE [s EXCEPT !.line = ln, !.i = @ + 1]

IsLineCommentStart(c, k) == At(c, k) = "/" /\ k + 1 < Len(c) /\ At(c, k + 1) = "/"
IsBlockCommentStart(c, k) == At(c, k) = "/" /\ k + 1 < Len(c) /\ At(c, k + 1) = "*"

OnLineComment(s) == [s EXCEPT !.pc = "line_comment"]

\* while i < length and code[i] != "\n": i += 1
LineCommentIter(c, s) ==
    IF s.i < Len(c) /\ At(c, s.i) # NL
    THEN [s EXCEPT !.i = @ + 1]
    ELSE [s EXCEPT !.pc = "outer"]

OnBlockComment(s) == [s EXCEPT !.i = @ + 2, !.pc = "block_comment"]

\* one evaluation of: while i < length - 1: ...
BlockCommentIter(c, s) ==
    IF ~(s.i < Len(c) - 1) THEN [s EXCEPT !.pc = "outer"]
    ELSE LET ln == IF At(c, s.i) = NL THEN s.line + 1 ELSE s.line IN
         IF At(c, s.i) = "*" /\ At(c, s.i + 1) = "/"
         THEN [s EXCEPT !.line = ln, !.i = @ + 2, !.pc = "outer"]
         ELSE [s EXCEPT !.line = ln, !.i = @ + 1]

\* stack.append((ch, line))
OnOpener(c, s) ==
    [s EXCEPT !.stack = Append(@, <<At(c, s.i), s.line>>),
              !.stackPos = Append(@, s.i),
              !.i = @ + 1]

Pop(q) == SubSeq(q, 1, Len(q) - 1)
Top(q) == q[Len(q)]

\* (variant: the scan gives up at the first closer that has no opener)
OnCloserEmptyStop(c, s) ==
    [s EXCEPT !.errors = Append(@, UnexpectedCloser(At(c, s.i), s.line)),
              !.errPos = Append(@, <<s.i, -1>>),
              !.i = Len(c)]

OnCloserEmpty(c, s) ==
    [s EXCEPT !.errors = Append(@, UnexpectedCloser(At(c, s.i), s.line)),
              !.errPos = Append(@, <<s.i, -1>>),
              !.i = @ + 1]

\* (variant: the mismatched top is left on the stack)
OnCloserMismatchNoPop(c, s) ==
    [s EXCEPT !.errors = Append(@, Mismatched(At(c, s.i), s.line,
                                               Top(s.stack)[1], Top(s.stack)[2])),
              !.errPos = Append(@, <<s.i, Top(s.stackPos)>>),
              !.i = @ + 1]
OnCloserMismatch(c, s) ==
    [s EXCEPT !.errors = Append(@, Mismatched(At(c, s.i), s.line,
                                               Top(s.stack)[1], Top(s.stack)[2])),
              !.errPos = Append(@, <<s.i, Top(s.stackPos)>>),
              !.stack = Pop(@),
              !.stackPos = Pop(@),
              !.i = @ + 1]

OnCloserMatch(c, s) ==
    [s EXCEPT !.stack = Pop(@), !.stackPos = Pop(@), !.i = @ + 1]

OnCloser(c, s) ==
    IF s.stack = <<>> THEN OnCloserEmpty(c, s)
    ELSE IF Top(s.stack)[1] # closers[At(c, s.i)] THEN OnCloserMismatch(c, s)
    ELSE OnCloserMatch(c, s)

OnOther(s) == [s EXCEPT !.i = @ + 1]

\* one evaluation of the outer loop: while i < length: ... up to the next
\* `continue`, the entry of a skip loop, or the trailing i += 1
OuterIter(c, s) ==
    IF ~(s.i < Len(c)) THEN [s EXCEPT !.pc = "unclosed"]
    ELSE LET ch == At(c, s.i) IN
         IF ch = NL THEN OnNewline(s)
         ELSE IF ch \in Quotes THEN OnQuote(c, s)
         ELSE IF IsLineCommentStart(c, s.i) THEN OnLineComment(s)
         ELSE IF IsBlockCommentStart(c, s.i) THEN OnBlockComment(s)
         ELSE IF ch \in DOMAIN openers THEN OnOpener(c, s)
         ELSE IF ch \in DOMAIN closers THEN OnCloser(c, s)
         ELSE OnOther(s)

\* for opener_char, opener_line in stack: errors.append(...); return errors
\* (variant: innermost first)
UnclosedErrorsReversed(st) ==
    [k \in 1..Len(st) |-> Unclosed(st[Len(st) + 1 - k][1], st[Len(st) + 1 - k][2])]
UnclosedErrors(st) == [k \in 1..Len(st) |-> Unclosed(st[k][1], st[k][2])]

ReportUnclosed(s) ==
    [s EXCEPT !.errors = @ \o UnclosedErrors(s.stack),
              !.errPos = @ \o [k \in 1..Len(s.stack) |-> <<-1, s.stackPos[k]>>],
              !.pc = "done"]

ScanStep(c, s) ==
    CASE s.pc = "outer" -> OuterIter(c, s)
      [] s.pc = "string" -> StringIter(c, s)
      [] s.pc = "line_comment" -> LineCommentIter(c, s)
      [] s.pc = "block_comment" -> BlockCommentIter(c, s)
      [] s.pc = "unclosed" -> ReportUnclosed(s)
      [] OTHER -> s

RECURSIVE ScanRun(_, _)
ScanRun(c, s) == IF s.pc = "done" THEN s ELSE ScanRun(c, ScanStep(c, s))

\* validate_syntax(code) as a function of its argument
validate_syntax(c) == ScanRun(c, ScanInit).errors

(***************************************************************************)
(* Text helpers: what str.lower, the `in` operator, str.strip and the      *)
(* regular expressions of validator.py do on a sequence of characters      *)
(***************************************************************************)
LowerLetters ==
    <<"a", "b", "c", "d", "e", "f", "g", "h", "i", "j", "k", "l", "m",
      "n", "o", "p", "q", "r", "s", "t", "u", "v", "w", "x", "y", "z">>
UpperLetters ==
    <<"A", "B", "C", "D", "E", "F", "G", "H", "I", "J", "K", "L", "M",
      "N", "O", "P", "Q", "R", "S", "T", "U", "V", "W", "X", "Y", "Z">>
Range(f) == {f[k] : k \in DOMAIN f}
Digits == {"0", "1", "2", "3", "4", "5", "6", "7", "8", "9"}
HexDigits == Digits \cup {"a", "b", "c", "d", "e", "f", "A", "B", "C", "D", "E", "F"}
\* \w
WordChars == Range(LowerLetters) \cup Range(UpperLetters) \cup Digits \cup {"_"}
\* \s, and what str.strip() removes
Whitespace == {SPACE, NL, "\t", "\r", "\f"}

\* code[k], or no character at all outside the text
Ch(c, k) == IF k >= 0 /\ k < Len(c) THEN c[k + 1] ELSE ""

\* str.lower() of one character and of a text
LowerChar(x) ==
    IF x \in Range(UpperLetters)
    THEN LowerLetters[CHOOSE k \in DOMAIN UpperLetters : UpperLetters[k] = x]
    ELSE x
ToLower(s) == [k \in 1..Len(s) |-> LowerChar(s[k])]

\* s[a:b]
Slice(s, a, b) == SubSeq(s, a + 1, b)

\* needle occurs in hay at position p
MatchLit(hay, p, needle) ==
    /\ p >= 0
    /\ p + Len(needle) <= Len(hay)
    /\ \A k \in 1..Len(needle) : hay[p + k] = needle[k]
\* the same under re.IGNORECASE
MatchLitCI(hay, p, needle) == MatchLit(ToLower(hay), p, ToLower(needle))

\* needle in hay
Contains(needle, hay) == \E p \in 0..(Len(hay) - Len(needle)) : MatchLit(hay, p, needle)

\* \b between positions p-1 and p
WordBoundary(c, p) == (Ch(c, p - 1) \in WordChars) # (Ch(c, p) \in WordChars)

\* the position after the longest run of characters of S that starts at p
RECURSIVE SkipSet(_, _, _)
SkipSet(c, p, S) == IF Ch(c, p) \in S THEN SkipSet(c, p + 1, S) ELSE p
SkipWs(c, p) == SkipSet(c, p, Whitespace)

\* the position of the first x at or after p (Len(c) when there is none)
RECURSIVE FindChar(_, _, _)
FindChar(c, p, x) == IF p >= Len(c) \/ Ch(c, p) = x THEN p ELSE FindChar(c, p + 1, x)

\* str.strip()
RECURSIVE RStrip(_)
RStrip(s) ==
    IF Len(s) > 0 /\ s[Len(s)] \in Whitespace THEN RStrip(SubSeq(s, 1, Len(s) - 1)) ELSE s
RECURSIVE LStrip(_)
LStrip(s) == IF Len(s) > 0 /\ s[1] \in Whitespace THEN LStrip(Tail(s)) ELSE s
Strip(s) == LStrip(RStrip(s))

SetMax(S) == CHOOSE x \in S : \A y \in S : y <= x

\* the positions of a text
Positions(c) == 0..(Len(c) - 1)

(***************************************************************************)
(* Constants of validator.py                                               *)
(***************************************************************************)
SAFE_CSS_KEYWORDS ==
    {<<"t", "r", "a", "n", "s", "p", "a", "r", "e", "n", "t">>, <<"i", "n", "h", "e", "r", "i", "t">>, <<"c", "u", "r", "r", "e", "n", "t", "c", "o", "l", "o", "r">>, <<"i", "n", "i", "t", "i", "a", "l">>, <<"u", "n", "s", "e", "t">>, <<"n", "o", "n", "e">>}

NAMED_COLORS ==
    {<<"r", "e", "d">>, <<"b", "l", "u", "e">>, <<"g", "r", "e", "e", "n">>, <<"y", "e", "l", "l", "o", "w">>, <<"o", "r", "a", "n", "g", "e">>, <<"p", "i", "n", "k">>, <<"p", "u", "r", "p", "l", "e">>,
     <<"b", "r", "o", "w", "n">>, <<"c", "y", "a", "n">>, <<"m", "a", "g", "e", "n", "t", "a">>, <<"l", "i", "m", "e">>, <<"t", "e", "a", "l">>, <<"m", "a", "r", "o", "o", "n">>, <<"n", "a", "v", "y">>,
     <<"o", "l", "i", "v", "e">>, <<"a", "q", "u", "a">>, <<"f", "u", "c", "h", "s", "i", "a">>, <<"c", "o", "r", "a", "l">>, <<"c", "r", "i", "m", "s", "o", "n">>, <<"g", "o", "l", "d">>,
     <<"i", "n", "d", "i", "g", "o">>, <<"k", "h", "a", "k", "i">>, <<"l", "a", "v", "e", "n", "d", "e", "r">>, <<"s", "a", "l", "m", "o", "n">>, <<"s", "i", "e", "n", "n", "a">>, <<"t", "a", "n">>,
     <<"t", "o", "m", "a", "t", "o">>, <<"t", "u", "r", "q", "u", "o", "i", "s", "e">>, <<"v", "i", "o", "l", "e", "t">>, <<"w", "h", "e", "a", "t">>}

TokenDiag(cat, text) == Diag(cat, "", text, 0, <<>>, 0)

(***************************************************************************)
(* validate_design_tokens                                                  *)
(***************************************************************************)
CheckPrimaryColor(c, t) ==
    IF ~Contains(ToLower(t.primary_color), ToLower(c))
    THEN <<TokenDiag("MISSING_PRIMARY_COLOR", t.primary_color)>>
    ELSE <<>>

CheckBorderRadius(c, t) ==
    IF ~Contains(t.border_radius, c)
    THEN <<TokenDiag("MISSING_BORDER_RADIUS", t.border_radius)>>
    ELSE <<>>

CheckFontFamily(c, t) ==
    IF ~Contains(ToLower(t.font_family), ToLower(c))
    THEN <<TokenDiag("MISSING_FONT_FAMILY", t.font_family)>>
    ELSE <<>>

validate_design_tokens(c, t) ==
    CheckPrimaryColor(c, t) \o CheckBorderRadius(c, t) \o CheckFontFamily(c, t)

(***************************************************************************)
(* validate_colors                                                         *)
(***************************************************************************)
\* (variant: the three digits are repeated as a group)
normalise_hex_grouped(h) ==
    LET l == ToLower(h) IN
    IF Len(l) = 4 THEN <<"#", l[2], l[3], l[4], l[2], l[3], l[4]>> ELSE l

\* _normalise_hex
normalise_hex(h) ==
    LET l == ToLower(h) IN
    IF Len(l) = 4 THEN <<"#", l[2], l[2], l[3], l[3], l[4], l[4]>> ELSE l

\* re.compile(r"\b(rgba?|hsla?|hwb)\s*\(", re.IGNORECASE).search(code)
FunctionalNames == {<<"r", "g", "b", "a">>, <<"r", "g", "b">>, <<"h", "s", "l", "a">>, <<"h", "s", "l">>, <<"h", "w", "b">>}
HasFunctionalColor(c) ==
    \E p \in Positions(c) :
        /\ WordBoundary(c, p)
        /\ \E name \in FunctionalNames :
              /\ MatchLitCI(c, p, name)
              /\ Ch(c, SkipWs(c, p + Len(name))) = "("

CheckFunctional(c, t) ==
    IF HasFunctionalColor(c)
    THEN <<Diag("UNAUTHORIZED_COLOR_FORMAT", "", t.primary_color, 0, t.secondary_color, 0)>>
    ELSE <<>>

\* the approved set, with the 3-digit shorthand of 6-digit members added
ApprovedBase(t) ==
    {ToLower(t.primary_color), ToLower(t.secondary_color),
     <<"#", "f", "f", "f", "f", "f", "f">>, <<"#", "f", "f", "f">>, <<"#", "0", "0", "0", "0", "0", "0">>, <<"#", "0", "0", "0">>}
HasShorthand(h) == Len(h) = 7 /\ h[2] = h[3] /\ h[4] = h[5] /\ h[6] = h[7]
ApprovedHex(t) ==
    ApprovedBase(t) \cup {<<"#", h[2], h[4], h[6]>> : h \in {g \in ApprovedBase(t) : HasShorthand(g)}}
NormalisedApproved(t) == {normalise_hex(h) : h \in ApprovedHex(t)}

\* length of the match of r"#[0-9a-fA-F]{3,8}\b" at position p (0: no match)
HexMatchLen(c, p) ==
    IF Ch(c, p) # "#" THEN 0
    ELSE LET ok == {n \in 3..8 : /\ \A k \in 1..n : Ch(c, p + k) \in HexDigits
                                 /\ WordBoundary(c, p + 1 + n)}
         IN  IF ok = {} THEN 0 ELSE 1 + SetMax(ok)

\* hex_pattern.finditer(code): the matched texts, left to right, not overlapping
RECURSIVE HexMatches(_, _)
HexMatches(c, p) ==
    IF p >= Len(c) THEN <<>>
    ELSE LET n == HexMatchLen(c, p) IN
         IF n > 0 THEN <<Slice(c, p, p + n)>> \o HexMatches(c, p + n)
         ELSE HexMatches(c, p + 1)

HexDiag(raw, t) ==
    Diag("UNAUTHORISED_HEX_COLOR", "", raw, 0,
         t.primary_color \o <<",">> \o t.secondary_color, 0)

\* (variant: the matched text is kept as written)
FoundRaw(m) == m
\* found = match.group(0).lower()
Found(m) == ToLower(m)

\* the loop over the matches, from match k on
RECURSIVE HexLoop(_, _, _, _)
HexLoop(ms, k, seen, t) ==
    IF k > Len(ms) THEN <<>>
    ELSE LET found == Found(ms[k])
             normalised == normalise_hex(found)
         IN  IF normalised \notin NormalisedApproved(t) /\ found \notin seen
             THEN <<HexDiag(ms[k], t)>> \o HexLoop(ms, k + 1, seen \cup {found}, t)
             ELSE HexLoop(ms, k + 1, seen, t)

CheckHex(c, t) == HexLoop(HexMatches(c, 0), 1, {}, t)

\* named_pattern.finditer(code): r":\s*(red|blue|...)\b", re.IGNORECASE
NamedMatchAt(c, p) ==
    IF Ch(c, p) # ":" THEN {}
    ELSE LET q == SkipWs(c, p + 1) IN
         {name \in NAMED_COLORS : MatchLitCI(c, q, name) /\ WordBoundary(c, q + Len(name))}

RECURSIVE CheckNamed(_, _)
CheckNamed(c, p) ==
    IF p >= Len(c) THEN <<>>
    ELSE LET hit == NamedMatchAt(c, p) IN
         IF hit # {}
         THEN LET name == CHOOSE n \in hit : TRUE
                  q == SkipWs(c, p + 1)
                  raw == Slice(c, q, q + Len(name))
              IN  (IF ToLower(raw) \notin SAFE_CSS_KEYWORDS
                   THEN <<Diag("UNAUTHORISED_NAMED_COLOR", "", raw, 0, <<>>, 0)>>
                   ELSE <<>>) \o CheckNamed(c, q + Len(name))
         ELSE CheckNamed(c, p + 1)

validate_colors(c, t) == CheckFunctional(c, t) \o CheckHex(c, t) \o CheckNamed(c, 0)

(***************************************************************************)
(* validate_structure                                                      *)
(***************************************************************************)
StructDiag(kind) == Diag("INCOMPLETE_STRUCTURE", kind, <<>>, 0, <<>>, 0)

\* re.search(r"\bexport\s+class\b", code)
HasExportClass(c) ==
    \E p \in Positions(c) :
        /\ WordBoundary(c, p)
        /\ MatchLit(c, p, <<"e", "x", "p", "o", "r", "t">>)
        /\ Ch(c, p + 6) \in Whitespace
        /\ LET q == SkipWs(c, p + 6) IN
              MatchLit(c, q, <<"c", "l", "a", "s", "s">>) /\ WordBoundary(c, q + 5)

\* stripped = code.strip(); stripped and stripped[-1] != "}"
IsTruncated(c) ==
    LET stripped == Strip(c) IN Len(stripped) > 0 /\ stripped[Len(stripped)] # "}"

\* r"\b(public|private|protected)\s+\w+", re.IGNORECASE
AccessModifiers == {<<"p", "u", "b", "l", "i", "c">>, <<"p", "r", "i", "v", "a", "t", "e">>, <<"p", "r", "o", "t", "e", "c", "t", "e", "d">>}
HasAccessModifier(c) ==
    \E p \in Positions(c) :
        /\ WordBoundary(c, p)
        /\ \E kw \in AccessModifiers :
              /\ MatchLitCI(c, p, kw)
              /\ Ch(c, p + Len(kw)) \in Whitespace
              /\ Ch(c, SkipWs(c, p + Len(kw))) \in WordChars

\* r"\b\w+\s*:\s*(string|number|boolean|any|void|object|Array|Observable|Subject|EventEmitter)\b"
MemberTypes ==
    {<<"s", "t", "r", "i", "n", "g">>, <<"n", "u", "m", "b", "e", "r">>, <<"b", "o", "o", "l", "e", "a", "n">>, <<"a", "n", "y">>, <<"v", "o", "i", "d">>, <<"o", "b", "j", "e", "c", "t">>, <<"A", "r", "r", "a", "y">>,
     <<"O", "b", "s", "e", "r", "v", "a", "b", "l", "e">>, <<"S", "u", "b", "j", "e", "c", "t">>, <<"E", "v", "e", "n", "t", "E", "m", "i", "t", "t", "e", "r">>}
HasTypedProperty(c) ==
    \E p \in Positions(c) :
        /\ WordBoundary(c, p)
        /\ Ch(c, p) \in WordChars
        /\ LET colon == SkipWs(c, SkipSet(c, p, WordChars)) IN
              /\ Ch(c, colon) = ":"
              /\ LET q == SkipWs(c, colon + 1) IN
                    \E ty \in MemberTypes :
                        MatchLit(c, q, ty) /\ WordBoundary(c, q + Len(ty))

\* r"\b\w+\s*\([^)]*\)\s*(?::\s*\w+\s*)?\{"
HasMethod(c) ==
    \E p \in Positions(c) :
        /\ WordBoundary(c, p)
        /\ Ch(c, p) \in WordChars
        /\ LET open == SkipWs(c, SkipSet(c, p, WordChars)) IN
              /\ Ch(c, open) = "("
              /\ LET close == FindChar(c, open + 1, ")")
                     e == SkipWs(c, close + 1)
                     f == SkipWs(c, e + 1)
                     h == SkipWs(c, SkipSet(c, f, WordChars))
                 IN  /\ Ch(c, close) = ")"
                     /\ \/ Ch(c, e) = "{"
                        \/ /\ Ch(c, e) = ":"
                           /\ Ch(c, f) \in WordChars
                           /\ Ch(c, h) = "{"

\* r"\b(constructor|ngOnInit|ngOnDestroy|ngOnChanges|ngAfterViewInit)\b"
LifecycleHooks ==
    {<<"c", "o", "n", "s", "t", "r", "u", "c", "t", "o", "r">>, <<"n", "g", "O", "n", "I", "n", "i", "t">>, <<"n", "g", "O", "n", "D", "e", "s", "t", "r", "o", "y">>, <<"n", "g", "O", "n", "C", "h", "a", "n", "g", "e", "s">>, <<"n", "g", "A", "f", "t", "e", "r", "V", "i", "e", "w", "I", "n", "i", "t">>}
HasLifecycleHook(c) ==
    \E p \in Positions(c) :
        /\ WordBoundary(c, p)
        /\ \E kw \in LifecycleHooks : MatchLit(c, p, kw) /\ WordBoundary(c, p + Len(kw))

has_member(c) ==
    HasAccessModifier(c) \/ HasTypedProperty(c) \/ HasMethod(c) \/ HasLifecycleHook(c)

validate_structure(c) ==
    (IF ~Contains(<<"@", "C", "o", "m", "p", "o", "n", "e", "n", "t">>, c) THEN <<StructDiag("missing decorator")>> ELSE <<>>)
    \o (IF ~HasExportClass(c) THEN <<StructDiag("missing export class")>> ELSE <<>>)
    \o (IF IsTruncated(c) THEN <<StructDiag("truncated body")>> ELSE <<>>)
    \o (IF HasExportClass(c) /\ ~has_member(c)
        THEN <<StructDiag("empty class body")>> ELSE <<>>)

(***************************************************************************)
(* _warn_spacing_token                                                     *)
(***************************************************************************)
\* tokens.get(key, default)
Get(t, key, default) == IF key \in DOMAIN t THEN t[key] ELSE default

\* (variant: the test of the occurrence is inverted)
warn_spacing_token_inverted(c, t) ==
    LET spacing == Get(t, "spacing", <<>>) IN
    IF spacing # <<>> /\ Contains(spacing, c)
    THEN <<Diag("SPACING_SUGGESTION", "", spacing, 0, <<>>, 0)>>
    ELSE <<>>

warn_spacing_token(c, t) ==
    LET spacing == Get(t, "spacing", <<>>) IN
    IF spacing # <<>> /\ ~Contains(spacing, c)
    THEN <<Diag("SPACING_SUGGESTION", "", spacing, 0, <<>>, 0)>>
    ELSE <<>>

SeqsUpTo(A, n) == UNION {[1..k -> A] : k \in 0..n}

(***************************************************************************)
(* validate_component: the report aggregator                               *)
(***************************************************************************)
\* (variant: the new diagnostics are put in front)
ExtendFront(list, more) == more \o list
\* list.extend(more)
Extend(list, more) == list \o more

\* (variant: a warning makes the report invalid)
MakeReportWarningsBlock(errs, warns) ==
    [is_valid |-> Len(errs) = 0 /\ Len(warns) = 0, errors |-> errs, warnings |-> warns]
\* return {"is_valid": len(errors) == 0, "errors": errors, "warnings": warnings}
MakeReport(errs, warns) ==
    [is_valid |-> Len(errs) = 0, errors |-> errs, warnings |-> warns]

\* the value of `report` before any validation
NoReport == [is_valid |-> FALSE, errors |-> <<>>, warnings |-> <<>>]

\* validate_component(code, tokens) as a function of its arguments
validate_component(c, t) ==
    MakeReport(
        Extend(Extend(Extend(Extend(<<>>, validate_design_tokens(c, t)),
                             validate_colors(c, t)),
                      validate_structure(c)),
               validate_syntax(c)),
        Extend(<<>>, warn_spacing_token(c, t)))

\* (variant: the spacing token is read by subscript as well)
KeysReadSpacingRequired(at) ==
    CASE at = "tokens" -> {"primary_color", "border_radius", "font_family"}
      [] at = "colors" -> {"primary_color", "secondary_color"}
      [] at = "warnings" -> {"spacing"}
      [] OTHER -> {}
\* the keys read as tokens[key] by the statement at a position of
\* validate_component: a key that is missing raises KeyError
KeysRead(at) ==
    CASE at = "tokens" -> {"primary_color", "border_radius", "font_family"}
      [] at = "colors" -> {"primary_color", "secondary_color"}
      [] OTHER -> {}

\* tokens[key] raises KeyError inside a checker: validate_component is left
\* through the exception, its locals are dropped and nothing is returned
RaiseKeyError ==
    /\ v_pc \in {"tokens", "colors", "warnings"}
    /\ ~(KeysRead(v_pc) \subseteq DOMAIN tokens)
    /\ v_pc' = "raised"
    /\ UNCHANGED <<v_errors, v_warnings, report>>
    /\ UNCHANGED <<code, tokens, scanOnly, loopVars, hexVars>>

\* errors.extend(validate_design_tokens(code, tokens))
ExtendTokens ==
    /\ v_pc = "tokens"
    /\ KeysRead(v_pc) \subseteq DOMAIN tokens
    /\ v_errors' = Extend(v_errors, validate_design_tokens(code, tokens))
    /\ v_pc' = "colors"
    /\ UNCHANGED <<v_warnings, report>>
    /\ UNCHANGED <<code, tokens, scanOnly, loopVars, hexVars>>

\* errors.extend(validate_colors(code, tokens))
ExtendColors ==
    /\ v_pc = "colors"
    /\ KeysRead(v_pc) \subseteq DOMAIN tokens
    /\ v_errors' = Extend(v_errors, validate_colors(code, tokens))
    /\ v_pc' = "structure"
    /\ UNCHANGED <<v_warnings, report>>
    /\ UNCHANGED <<code, tokens, scanOnly, loopVars, hexVars>>

\* errors.extend(validate_structure(code))
ExtendStructure ==
    /\ v_pc = "structure"
    /\ v_errors' = Extend(v_errors, validate_structure(code))
    /\ v_pc' = "syntax"
    /\ UNCHANGED <<v_warnings, report>>
    /\ UNCHANGED <<code, tokens, scanOnly, loopVars, hexVars>>

\* errors.extend(validate_syntax(code))
ExtendSyntax ==
    /\ v_pc = "syntax"
    /\ v_errors' = Extend(v_errors, validate_syntax(code))
    /\ v_pc' = "warnings"
    /\ UNCHANGED <<v_warnings, report>>
    /\ UNCHANGED <<code, tokens, scanOnly, loopVars, hexVars>>

\* warnings.extend(_warn_spacing_token(code, tokens))
ExtendWarnings ==
    /\ v_pc = "warnings"
    /\ KeysRead(v_pc) \subseteq DOMAIN tokens
    /\ v_warnings' = Extend(v_warnings, warn_spacing_token(code, tokens))
    /\ v_pc' = "return"
    /\ UNCHANGED <<v_errors, report>>
    /\ UNCHANGED <<code, tokens, scanOnly, loopVars, hexVars>>

\* return {...}
ReturnReport ==
    /\ v_pc = "return"
    /\ report' = MakeReport(v_errors, v_warnings)
    /\ v_pc' = "done"
    /\ UNCHANGED <<v_errors, v_warnings>>
    /\ UNCHANGED <<code, tokens, scanOnly, loopVars, hexVars>>

ValidateStep ==
    \/ ExtendTokens
    \/ ExtendColors
    \/ ExtendStructure
    \/ ExtendSyntax
    \/ ExtendWarnings
    \/ ReturnReport

(***************************************************************************)
(* Inputs of the validator                                                 *)
(***************************************************************************)
Tokens(p, s, r, f, sp) ==
    [primary_color |-> p, secondary_color |-> s, border_radius |-> r,
     font_family |-> f, spacing |-> sp]

\* the design system of the demo component; a design system with an upper-case
\* primary colour that has a 3-digit shorthand, and no spacing value
DemoTokens == Tokens(<<"#", "6", "3", "6", "6", "f", "1">>, <<"#", "f", "1", "f", "5", "f", "9">>, <<"8", "p", "x">>, <<"I", "n", "t", "e", "r">>, <<"1", "6", "p", "x">>)
ShortTokens == Tokens(<<"#", "A", "A", "B", "B", "C", "C">>, <<"#", "0", "0", "0">>, <<"4", "p", "x">>, <<"R", "o", "b", "o", "t", "o">>, <<>>)
TokenSets == {DemoTokens, ShortTokens}

Skeleton == <<"@", "C", "o", "m", "p", "o", "n", "e", "n", "t", "(", "{", "}", ")", "\n", "e", "x", "p", "o", "r", "t", " ", "c", "l", "a", "s", "s", " ", "A", "{", "x", "(", ")", "{", "}", "}">>
DemoComment == <<"/", "*", "#", "6", "3", "6", "6", "f", "1", " ", "8", "p", "x", " ", "I", "n", "t", "e", "r", "*", "/">>
SpacingComment == <<"/", "*", "1", "6", "p", "x", "*", "/">>

Fragments ==
    { Skeleton,
      <<"e", "x", "p", "o", "r", "t", " ", "c", "l", "a", "s", "s", " ", "B", "{", "}">>,
      DemoComment,
      <<"/", "*", "#", "a", "a", "b", "b", "c", "c", " ", "4", "p", "x", " ", "r", "o", "b", "o", "t", "o", "*", "/">>,
      SpacingComment,
      <<"#", "A", "B", "C", ";">>,
      <<"#", "a", "b", "c", ";">>,
      <<"r", "g", "b", "(", "0", ")", ";">>,
      <<"a", ":", " ", "r", "e", "d", ";">>,
      <<"(", " ", "]">>,
      <<" ", "\n">> }

MaxFrags == 2

RECURSIVE Flatten(_)
Flatten(ss) == IF ss = <<>> THEN <<>> ELSE Head(ss) \o Flatten(Tail(ss))

ReportScenarios ==
    { DemoComment \o SpacingComment \o Skeleton,
      <<"#", "A", "B", "C", " ", "#", "a", "b", "c", " ", "#", "A", "B", "C", " ", "#", "a", "a", "b", "b", "c", "c">> }

ReportSources ==
    {Flatten(fs) : fs \in SeqsUpTo(Fragments, MaxFrags)} \cup ReportScenarios

(***************************************************************************)
(* run_agent_loop                                                          *)
(***************************************************************************)
\* MAX_RETRIES: int = 2
MAX_RETRIES == 2

\* largest max_retries argument explored
MaxRetriesArg == 2

\* _log(verbose, message), _log_errors, _log_warnings: what reaches stderr
Entry(msg, n, items) == [msg |-> msg, n |-> n, items |-> items]
Log(out, entry) == IF verbose THEN Append(out, entry) ELSE out
LogErrors(out, errs) == IF ~verbose THEN out ELSE Append(out, Entry("errors", Len(errs), errs))
LogWarnings(out, warns) ==
    IF ~verbose \/ warns = <<>> THEN out ELSE Append(out, Entry("warnings", Len(warns), warns))

\* what generate_component and regenerate_component may return
LoopSources ==
    { DemoComment \o SpacingComment \o Skeleton,
      DemoComment \o Skeleton,
      <<"#", "a", "b", "c", ";", "(", " ", "]">>,
      <<"@", "C", "o", "m", "p", "o", "n", "e", "n", "t", "(", "{", "}", ")", "a", ":", " ", "r", "e", "d", ";">> }

\* (variant: a report with warnings is retried as well)
IsAcceptedNoWarnings(rep) == rep.is_valid /\ rep.warnings = <<>>
\* if report["is_valid"]:
IsAccepted(rep) == rep.is_valid

\* regenerate_component(original_code=code, errors=report["errors"], ...)
RegenerateArgs(c, rep) == [original_code |-> c, errors |-> rep.errors]

\* (variant: the report's errors are returned with the source)
ReturnValueWithErrors(c, rep) == <<c, rep.errors>>
\* return code
ReturnValue(c, rep) == <<c>>

\* (variant: one attempt more than max_retries)
HasRetryLeftOffByOne(n, m) == n <= m + 1
\* for attempt in range(1, max_retries + 1): the next value n exists
HasRetryLeft(n, m) == n <= m

\* code = generate_component(description, tokens=tokens, model=model)
Generate ==
    /\ l_pc = "generate"
    /\ \E src \in LoopSources : code' = src
    /\ n_generate' = n_generate + 1
    /\ stderr' = Log(Log(Log(stderr, Entry("generating", 0, <<>>)),
                         Entry("generated", 0, <<>>)),
                     Entry("validating", 0, <<>>))
    /\ l_pc' = "validate"
    /\ UNCHANGED <<tokens, validatorVars, attempt, max_retries, verbose, result,
                   n_regenerate, n_validate, regen_args>>
    /\ UNCHANGED <<scanOnly, hexVars>>

\* generate_component or regenerate_component raises (no client, a failed request)
ServiceRaises ==
    /\ l_pc \in {"generate", "regenerate"}
    /\ l_pc' = "raised"
    /\ UNCHANGED <<code, tokens, validatorVars, attempt, max_retries, verbose, result,
                   counters, regen_args, stderr>>
    /\ UNCHANGED <<scanOnly, hexVars>>

\* report = validate_component(code, tokens): the call
CallValidate ==
    /\ l_pc = "validate"
    /\ v_pc' = "tokens"
    /\ v_errors' = <<>>
    /\ v_warnings' = <<>>
    /\ n_validate' = n_validate + 1
    /\ l_pc' = "validating"
    /\ UNCHANGED <<code, tokens, report, attempt, max_retries, verbose, result,
                   n_generate, n_regenerate, regen_args, stderr>>
    /\ UNCHANGED <<scanOnly, hexVars>>

\* if report["is_valid"]: _log_warnings(...); _log(...); return code
ReturnValid ==
    /\ l_pc = "validating" /\ v_pc = "done"
    /\ IsAccepted(report)
    /\ stderr' = Log(LogWarnings(stderr, report.warnings), Entry("passed", attempt, <<>>))
    /\ result' = ReturnValue(code, report)
    /\ l_pc' = "returned"
    /\ UNCHANGED <<code, tokens, validatorVars, attempt, max_retries, verbose,
                   counters, regen_args>>
    /\ UNCHANGED <<scanOnly, hexVars>>

\* validation failed: log the errors (and the warnings, if any)
ReportFailure ==
    /\ l_pc = "validating" /\ v_pc = "done"
    /\ ~IsAccepted(report)
    /\ stderr' = LET a == Log(stderr, Entry("failed", Len(report.errors), <<>>))
                     b == LogErrors(a, report.errors)
                 IN  IF report.warnings # <<>> THEN LogWarnings(b, report.warnings) ELSE b
    /\ l_pc' = "loop_head"
    /\ UNCHANGED <<code, tokens, validatorVars, attempt, max_retries, verbose, result,
                   counters, regen_args>>
    /\ UNCHANGED <<scanOnly, hexVars>>

\* for attempt in range(1, max_retries + 1): the loop takes its next value
NextAttempt ==
    /\ l_pc = "loop_head"
    /\ HasRetryLeft(attempt + 1, max_retries)
    /\ attempt' = attempt + 1
    /\ stderr' = Log(stderr, Entry("retry", attempt + 1, <<>>))
    /\ l_pc' = "regenerate"
    /\ UNCHANGED <<code, tokens, validatorVars, max_retries, verbose, result,
                   counters, regen_args>>
    /\ UNCHANGED <<scanOnly, hexVars>>

\* code = regenerate_component(original_code=code, errors=report["errors"], ...)
Regenerate ==
    /\ l_pc = "regenerate"
    /\ regen_args' = RegenerateArgs(code, report)
    /\ \E src \in LoopSources : code' = src
    /\ n_regenerate' = n_regenerate + 1
    /\ stderr' = Log(Log(stderr, Entry("retry generated", attempt, <<>>)),
                     Entry("re-validating", attempt, <<>>))
    /\ l_pc' = "validate"
    /\ UNCHANGED <<tokens, validatorVars, attempt, max_retries, verbose, result,
                   n_generate, n_validate>>
    /\ UNCHANGED <<scanOnly, hexVars>>

\* the for loop is exhausted: log the unresolved errors; return code
Exhausted ==
    /\ l_pc = "loop_head"
    /\ ~HasRetryLeft(attempt + 1, max_retries)
    /\ stderr' = Log(stderr, Entry("exhausted", max_retries, report.errors))
    /\ result' = ReturnValue(code, report)
    /\ l_pc' = "returned"
    /\ UNCHANGED <<code, tokens, validatorVars, attempt, max_retries, verbose,
                   counters, regen_args>>
    /\ UNCHANGED <<scanOnly, hexVars>>

(***************************************************************************)
(* The three state machines                                                *)
(***************************************************************************)
NoArgs == [original_code |-> <<>>, errors |-> <<>>]

HexIdle ==
    /\ h_pc = "none"
    /\ h_in = <<>>
    /\ h_once = <<>>
    /\ h_twice = <<>>
    /\ h_expanded = <<>>

ScanAtEntry ==
    /\ pc = ScanInit.pc
    /\ i = ScanInit.i
    /\ line = ScanInit.line
    /\ stack = ScanInit.stack
    /\ errors = ScanInit.errors
    /\ quote = ScanInit.quote
    /\ stackPos = ScanInit.stackPos
    /\ errPos = ScanInit.errPos

ValidatorIdle ==
    /\ v_pc = "idle"
    /\ v_errors = <<>>
    /\ v_warnings = <<>>
    /\ report = NoReport

LoopIdle ==
    /\ l_pc = "none"
    /\ attempt = 0
    /\ max_retries = MAX_RETRIES
    /\ verbose = FALSE
    /\ result = <<>>
    /\ n_generate = 0
    /\ n_regenerate = 0
    /\ n_validate = 0
    /\ regen_args = NoArgs
    /\ stderr = <<>>

ScanState ==
    [pc |-> pc, i |-> i, line |-> line, stack |-> stack, errors |-> errors,
     quote |-> quote, stackPos |-> stackPos, errPos |-> errPos]

SetScan(s) ==
    /\ pc' = s.pc
    /\ i' = s.i
    /\ line' = s.line
    /\ stack' = s.stack
    /\ errors' = s.errors
    /\ quote' = s.quote
    /\ stackPos' = s.stackPos
    /\ errPos' = s.errPos
    /\ UNCHANGED <<code, tokens, validatorVars, loopVars, hexVars>>

ScanOuter == pc = "outer" /\ SetScan(OuterIter(code, ScanState))
ScanString == pc = "string" /\ SetScan(StringIter(code, ScanState))
ScanLineComment == pc = "line_comment" /\ SetScan(LineCommentIter(code, ScanState))
ScanBlockComment == pc = "block_comment" /\ SetScan(BlockCommentIter(code, ScanState))
ScanUnclosed == pc = "unclosed" /\ SetScan(ReportUnclosed(ScanState))

\* Bounds of the scanner's inputs
MaxLen == 4
Alphabet ==
    {"(", ")", "{", "}", "[", "]", SQUOTE, DQUOTE, BACKSLASH, "/", "*", NL, SPACE}

\* Longer sources: the scenarios of the documentation and strings with escapes
ScenarioSources ==
    { <<"(", SPACE, "]">>,
      <<"{", SPACE, "{", SPACE, "}">>,
      <<"x", "=", DQUOTE, ")", "{", DQUOTE, ";">>,
      <<SQUOTE, BACKSLASH, NL, SQUOTE, NL, "(">>,
      <<BACKTICK, "(", NL, SQUOTE, BACKTICK, "]", NL, ")">>,
      <<"{", NL, "/", "*", NL, "(", "*", "/", NL, "[", NL, ")">>,
      <<"(", NL, "[", NL, "{", NL, "/", "/", "}", NL>> }

Sources == SeqsUpTo(Alphabet, MaxLen) \cup ScenarioSources

\* validate_syntax(code) for every source
Init ==
    /\ code \in Sources
    /\ tokens = DemoTokens
    /\ ScanAtEntry
    /\ HexIdle
    /\ ValidatorIdle
    /\ LoopIdle

Next ==
    \/ ScanOuter
    \/ ScanString
    \/ ScanLineComment
    \/ ScanBlockComment
    \/ ScanUnclosed

Spec == Init /\ [][Next]_vars

\* validate_component(code, tokens) for every source and token set
InitReport ==
    /\ code \in ReportSources
    /\ tokens \in TokenSets
    /\ ScanAtEntry
    /\ HexIdle
    /\ v_pc = "tokens"
    /\ v_errors = <<>>
    /\ v_warnings = <<>>
    /\ report = NoReport
    /\ LoopIdle

NextReport == ValidateStep

SpecReport == InitReport /\ [][NextReport]_vars

\* validate_component(code, tokens) for token sets with keys left out
AllKeys == {"primary_color", "secondary_color", "border_radius", "font_family", "spacing"}
Restrict(t, K) == [k \in K |-> t[k]]
PartialTokenSets == {Restrict(t, K) : t \in TokenSets, K \in SUBSET AllKeys}
PartialSources == LoopSources \cup ReportScenarios

InitPartial ==
    /\ code \in PartialSources
    /\ tokens \in PartialTokenSets
    /\ ScanAtEntry
    /\ HexIdle
    /\ v_pc = "tokens"
    /\ v_errors = <<>>
    /\ v_warnings = <<>>
    /\ report = NoReport
    /\ LoopIdle

NextPartial ==
    \/ ValidateStep
    \/ RaiseKeyError

SpecPartial == InitPartial /\ [][NextPartial]_vars

\* _normalise_hex on the literals hex_pattern can match: "#" and
\* MinHexDigits..MaxHexDigits hex digits
MinHexDigits == 3
MaxHexDigits == 8
HexAlphabet == {"f", "F", "a", "0"}
HexLiterals ==
    {<<"#">> \o ds : ds \in UNION {[1..n -> HexAlphabet] : n \in MinHexDigits..MaxHexDigits}}

\* f"#{r}{r}{g}{g}{b}{b}" written with the digits of a 3-digit literal as they are
Expansion(h) == <<"#", h[2], h[2], h[3], h[3], h[4], h[4]>>

NormaliseOnce ==
    /\ h_pc = "first"
    /\ h_once' = normalise_hex(h_in)
    /\ h_pc' = "second"
    /\ UNCHANGED <<h_in, h_twice, h_expanded>>
    /\ UNCHANGED <<code, tokens, scanOnly, validatorVars, loopVars>>

NormaliseTwice ==
    /\ h_pc = "second"
    /\ h_twice' = normalise_hex(h_once)
    /\ h_pc' = IF Len(h_in) = 4 THEN "expansion" ELSE "done"
    /\ UNCHANGED <<h_in, h_once, h_expanded>>
    /\ UNCHANGED <<code, tokens, scanOnly, validatorVars, loopVars>>

NormaliseExpansion ==
    /\ h_pc = "expansion"
    /\ h_expanded' = normalise_hex(Expansion(h_in))
    /\ h_pc' = "done"
    /\ UNCHANGED <<h_in, h_once, h_twice>>
    /\ UNCHANGED <<code, tokens, scanOnly, validatorVars, loopVars>>

InitHex ==
    /\ code = <<>>
    /\ tokens = DemoTokens
    /\ ScanAtEntry
    /\ ValidatorIdle
    /\ LoopIdle
    /\ h_pc = "first"
    /\ h_in \in HexLiterals
    /\ h_once = <<>>
    /\ h_twice = <<>>
    /\ h_expanded = <<>>

NextHex ==
    \/ NormaliseOnce
    \/ NormaliseTwice
    \/ NormaliseExpansion

SpecHex == InitHex /\ [][NextHex]_vars

\* run_agent_loop(description, max_retries=..., verbose=...) after
\* tokens = load_design_system()
InitLoop ==
    /\ code = <<>>
    /\ tokens \in TokenSets
    /\ ScanAtEntry
    /\ HexIdle
    /\ ValidatorIdle
    /\ l_pc = "generate"
    /\ attempt = 0
    /\ max_retries \in (0..MaxRetriesArg) \cup {MAX_RETRIES}
    /\ verbose \in BOOLEAN
    /\ result = <<>>
    /\ n_generate = 0
    /\ n_regenerate = 0
    /\ n_validate = 0
    /\ regen_args = NoArgs
    /\ stderr = <<>>

NextLoop ==
    \/ Generate
    \/ ServiceRaises
    \/ CallValidate
    \/ ValidateStep
    \/ ReturnValid
    \/ ReportFailure
    \/ NextAttempt
    \/ Regenerate
    \/ Exhausted

SpecLoop == InitLoop /\ [][NextLoop]_vars

(***************************************************************************)
(* Claims about validate_syntax (checked under Spec)                       *)
(***************************************************************************)

\* C2: the line counter always equals 1 plus the number of newline characters
\* already consumed (those before position i), whatever region they lie in,
\* so every line cited for an opener or a closer is 1 plus the number of
\* newlines that precede that character in the source.
C2_LineNumbersExact ==
    /\ line = 1 + NewlinesBefore(code, i)
    /\ \A k \in 1..Len(stack) : stack[k][2] = 1 + NewlinesBefore(code, stackPos[k])
    /\ \A k \in 1..Len(errors) :
        /\ errPos[k][1] >= 0 => errors[k].line = 1 + NewlinesBefore(code, errPos[k][1])
        /\ errPos[k][2] >= 0 =>
              errors[k].opener_line = 1 + NewlinesBefore(code, errPos[k][2])

\* Length of the run of backslashes that ends just before position j.
RECURSIVE BackslashRun(_, _)
BackslashRun(c, j) ==
    IF j <= 0 \/ At(c, j - 1) # BACKSLASH THEN 0 ELSE 1 + BackslashRun(c, j - 1)

\* Position j holds an occurrence of quote character q that no backslash escapes.
UnescapedQuoteAt(c, j, q) == At(c, j) = q /\ BackslashRun(c, j) % 2 = 0

QuotedBracketsScenario == <<"x", "=", DQUOTE, ")", "{", DQUOTE, ";">>

\* C3: a quote scanned in code state opens a string; until the next unescaped
\* occurrence of the same quote (or the end of input) every character is
\* skipped, a backslash taking the next character with it, and nothing in the
\* string touches the stack or the errors.  The text ){ inside a quoted string
\* gives no syntax diagnostic.
C3_StringsSkipped ==
    /\ [][ (pc = "outer" /\ i < Len(code) /\ At(code, i) \in Quotes) =>
              /\ pc' = "string" /\ quote' = At(code, i) /\ i' = i + 1
              /\ stack' = stack /\ errors' = errors ]_vars
    /\ [][ pc = "string" =>
              /\ stack' = stack /\ errors' = errors
              /\ pc' = "string" =>
                    /\ i' \in {i + 1, i + 2}
                    /\ i' = i + 2 => At(code, i) = BACKSLASH
                    /\ \A j \in i..(i' - 1) : ~UnescapedQuoteAt(code, j, quote)
              /\ pc' # "string" =>
                    /\ pc' = "outer"
                    /\ \/ i = Len(code) /\ i' = i
                       \/ i < Len(code) /\ i' = i + 1
                          /\ UnescapedQuoteAt(code, i, quote) ]_vars
    /\ [](code = QuotedBracketsScenario /\ pc = "done" => errors = <<>>)

\* The scanner is inside a string, just past an escaped quote, looking at a closer.
C3_Witness ==
    /\ pc = "string" /\ i >= 3 /\ i < Len(code)
    /\ At(code, i - 3) = quote
    /\ At(code, i - 2) = BACKSLASH
    /\ At(code, i - 1) = quote
    /\ At(code, i) \in DOMAIN closers

MismatchScenario == <<"(", SPACE, "]">>

\* C4: a closer that does not match the opener on top of a non-empty stack
\* emits exactly one mismatch error citing the closer's line and the top
\* entry's line, and pops exactly the top entry.  "( ]" yields that one error
\* and nothing else.
C4_MismatchPopsTop ==
    /\ [][ (/\ pc = "outer" /\ i < Len(code)
            /\ At(code, i) \in DOMAIN closers
            /\ stack # <<>>
            /\ stack[Len(stack)][1] # closers[At(code, i)]) =>
              /\ errors' = Append(errors,
                      Mismatched(At(code, i), line,
                                 stack[Len(stack)][1], stack[Len(stack)][2]))
              /\ Len(stack') = Len(stack) - 1
              /\ \A k \in 1..Len(stack') : stack'[k] = stack[k]
              /\ pc' = "outer" /\ i' = i + 1 ]_vars
    /\ [](code = MismatchScenario /\ pc = "done" =>
              errors = <<Mismatched("]", 1, "(", 1)>>)

C4_Witness ==
    /\ code = MismatchScenario /\ pc = "done"
    /\ Len(errors) = 1 /\ errors[1].kind = "mismatched"

UnclosedScenario == <<"{", SPACE, "{", SPACE, "}">>

\* C5: when the scan has ended, the errors are the errors of the scan followed
\* by exactly one unclosed-opener error per entry left on the stack, in stack
\* order from the bottom, each citing that entry's opener and line.  "{ { }"
\* yields one error, for the first '{'.
C5_UnclosedAfterScan ==
    pc = "done" =>
        LET n == Len(stack)
            m == Len(errors) - n
        IN  /\ m >= 0
            /\ \A k \in 1..m : errors[k].kind # "unclosed"
            /\ \A k \in 1..n :
                  /\ errors[m + k] = Unclosed(stack[k][1], stack[k][2])
                  /\ errPos[m + k] = <<-1, stackPos[k]>>
            /\ code = UnclosedScenario =>
                  errors = <<Unclosed("{", 1)>> /\ errPos = << <<-1, 0>> >>

\* A finished scan with one scan error and two different openers left open.
C5_Witness ==
    /\ pc = "done" /\ Len(stack) = 2 /\ Len(errors) = 3
    /\ stack[1][1] # stack[2][1]
    /\ errors[1].kind = "unexpected"

\* C15: a block comment, entered at "/*", lasts until the first following
\* "*/" (both characters consumed) or else until the end of the input, and
\* nothing in it changes the stack or the errors: the scanner leaves the block
\* comment loop only just behind a "*/" or at the end of the input.
C15_BlockCommentSkipped ==
    /\ [][(pc = "outer" /\ i < Len(code) /\ IsBlockCommentStart(code, i)) =>
              (pc' = "block_comment" /\ i' = i + 2 /\ stack' = stack /\ errors' = errors)]_vars
    /\ [][pc = "block_comment" =>
              /\ stack' = stack
              /\ errors' = errors
              /\ pc' \in {"block_comment", "outer"}
              /\ pc' = "outer" =>
                    \/ i' = i + 2 /\ At(code, i) = "*" /\ At(code, i + 1) = "/"
                    \/ i' = Len(code)]_vars

CloserOnEmptyStack ==
    pc = "outer" /\ i < Len(code) /\ At(code, i) \in DOMAIN closers /\ stack = <<>>

\* C16: a closer scanned as code while the stack is empty adds exactly one
\* SYNTAX_ERROR, the unexpected closer with the scanner's current line, leaves
\* the stack empty and moves on to the next character; what the rest of the
\* scan reports is what it would report had that character been no bracket.
C16_UnexpectedCloserContinues ==
    [][CloserOnEmptyStack =>
          /\ Len(errors') = Len(errors) + 1
          /\ SubSeq(errors', 1, Len(errors)) = errors
          /\ errors'[Len(errors')].cat = "SYNTAX_ERROR"
          /\ errors'[Len(errors')].kind = "unexpected"
          /\ errors'[Len(errors')].text = <<At(code, i)>>
          /\ errors'[Len(errors')].line = line
          /\ stack' = <<>>
          /\ i' = i + 1 /\ line' = line /\ pc' = "outer"
          /\ LET skipped == ScanRun(code, [ScanState EXCEPT !.i = @ + 1]).errors
                 rest == SubSeq(skipped, Len(errors) + 1, Len(skipped))
             IN  validate_syntax(code) = errors' \o rest]_vars

\* The scan of a source that starts with a closer and goes on with a matched
\* pair and an opener left open has returned.
C16_Witness ==
    /\ pc = "done"
    /\ Len(code) = 4
    /\ code[1] \in DOMAIN closers
    /\ code[2] = "(" /\ code[3] = ")" /\ code[4] = "["
    /\ Len(errors) = 2
    /\ errors[1].kind = "unexpected"
    /\ errors[2].kind = "unclosed"

\* the bracket characters of c from position k on that lie in code regions:
\* outside the string literals (from a quote to the next unescaped quote of
\* the same kind, or the end), the line comments (from "//" to the end of the
\* line) and the block comments (from "/*" to the first "*/" behind it, or
\* the end)
RECURSIVE CodeBrackets(_, _, _, _)
CodeBrackets(c, k, region, q) ==
    IF k >= Len(c) THEN <<>>
    ELSE LET ch == At(c, k) IN
         CASE region = "code" ->
                IF ch \in Quotes THEN CodeBrackets(c, k + 1, "string", ch)
                ELSE IF IsLineCommentStart(c, k) THEN CodeBrackets(c, k + 2, "line", q)
                ELSE IF IsBlockCommentStart(c, k) THEN CodeBrackets(c, k + 2, "block", q)
                ELSE IF ch \in DOMAIN openers \cup DOMAIN closers
                THEN <<ch>> \o CodeBrackets(c, k + 1, "code", q)
                ELSE CodeBrackets(c, k + 1, "code", q)
           [] region = "string" ->
                IF ch = BACKSLASH THEN CodeBrackets(c, k + 2, "string", q)
                ELSE IF ch = q THEN CodeBrackets(c, k + 1, "code", q)
                ELSE CodeBrackets(c, k + 1, "string", q)
           [] region = "line" ->
                IF ch = NL THEN CodeBrackets(c, k + 1, "code", q)
                ELSE CodeBrackets(c, k + 1, "line", q)
           [] OTHER ->
                IF ch = "*" /\ k + 1 < Len(c) /\ At(c, k + 1) = "/"
                THEN CodeBrackets(c, k + 2, "code", q)
                ELSE CodeBrackets(c, k + 1, "block", q)

\* bs, read after the openers in open (innermost last), is well nested
RECURSIVE WellNested(_, _)
WellNested(bs, open) ==
    IF bs = <<>> THEN open = <<>>
    ELSE IF Head(bs) \in DOMAIN openers THEN WellNested(Tail(bs), Append(open, Head(bs)))
    ELSE /\ open # <<>>
         /\ open[Len(open)] = closers[Head(bs)]
         /\ WellNested(Tail(bs), SubSeq(open, 1, Len(open) - 1))

\* C18: validate_syntax returns no error exactly when the brackets in the code
\* regions of the source are well nested; every error it returns is an
\* unexpected closer, a mismatched closer or an opener left on the stack.
C18_NoErrorIffWellNested ==
    pc = "done" =>
        /\ (errors = <<>>) <=> WellNested(CodeBrackets(code, 0, "code", ""), <<>>)
        /\ \A k \in 1..Len(errors) :
              errors[k].kind \in {"unexpected", "mismatched", "unclosed"}

\* the positions of code the next evaluation of a loop reads (code[i], code[i + 1])
ReadPositions ==
    CASE pc = "outer" /\ i < Len(code) ->
            {i} \cup (IF At(code, i) = "/" /\ i + 1 < Len(code) THEN {i + 1} ELSE {})
      [] pc = "string" /\ i < Len(code) -> {i}
      [] pc = "line_comment" /\ i < Len(code) -> {i}
      [] pc = "block_comment" /\ i < Len(code) - 1 ->
            {i} \cup (IF At(code, i) = "*" THEN {i + 1} ELSE {})
      [] OTHER -> {}

\* the loop evaluated next runs its body (its condition is true)
BodyRuns ==
    \/ pc \in {"outer", "string"} /\ i < Len(code)
    \/ pc = "line_comment" /\ i < Len(code) /\ At(code, i) # NL
    \/ pc = "block_comment" /\ i < Len(code) - 1

\* what is left to scan: the characters from i on, then the position in the
\* control flow (an outer iteration that enters the line comment loop leaves
\* i to that loop, whose first iteration moves it)
ScanRank ==
    CASE pc = "outer" -> IF i < Len(code) /\ IsLineCommentStart(code, i) THEN 4 ELSE 2
      [] pc \in {"string", "line_comment", "block_comment"} -> 3
      [] pc = "unclosed" -> 1
      [] OTHER -> 0
ScanRemaining == 5 * (Len(code) - i) + ScanRank

\* C12: validate_syntax ends without raising on every source: the scan
\* position stays within 0..len(code) and never moves backwards, every loop
\* body that runs moves it forwards (an outer iteration that enters the line
\* comment loop through that loop's first iteration), every position read is
\* below len(code), every dictionary lookup finds its key, and each step lowers
\* a natural number until the function has returned.
C12_ScanTerminates ==
    /\ [](/\ i \in 0..Len(code)
          /\ ReadPositions \subseteq 0..(Len(code) - 1)
          /\ \A k \in 1..Len(stack) : stack[k][1] \in DOMAIN openers
          /\ (pc = "outer" /\ i < Len(code) /\ stack # <<>> /\ At(code, i) \in DOMAIN closers)
                => Top(stack)[1] \in DOMAIN openers
          /\ ScanRemaining \in Nat
          /\ pc \in {"outer", "string", "line_comment", "block_comment", "unclosed", "done"})
    /\ [][i' >= i]_vars
    /\ [][(BodyRuns /\ ~(pc = "outer" /\ IsLineCommentStart(code, i))) => i' > i]_vars
    /\ [][(pc = "outer" /\ i < Len(code) /\ IsLineCommentStart(code, i)) =>
              (pc' = "line_comment" /\ i' = i /\ At(code, i) # NL)]_vars
    /\ [][ScanRemaining' < ScanRemaining]_vars

\* The scan returned after a string that is not closed and ends in a backslash.
C12_Witness ==
    /\ pc = "done"
    /\ Len(code) >= 2
    /\ code[1] \in Quotes
    /\ \A k \in 2..Len(code) : code[k] \notin Quotes
    /\ code[Len(code)] = BACKSLASH
    /\ i = Len(code)
    /\ errors = <<>>

(***************************************************************************)
(* Claims about validate_component (checked under SpecReport)              *)
(***************************************************************************)
WithoutSpacing(t) == [t EXCEPT !.spacing = <<>>]

\* C1: the returned report has is_valid exactly when its errors list is empty;
\* the warnings play no part: the verdict is the one the same source gets
\* from a token set that can raise no warning, and a report with warnings and
\* no errors is valid.
C1_ValidIffNoErrors ==
    v_pc = "done" =>
        /\ report.is_valid = (Len(report.errors) = 0)
        /\ report.is_valid = validate_component(code, WithoutSpacing(tokens)).is_valid
        /\ (report.warnings # <<>> /\ report.errors = <<>>) => report.is_valid

\* A returned report with a warning and no error.
C1_Witness ==
    /\ v_pc = "done"
    /\ report.warnings # <<>>
    /\ report.errors = <<>>
    /\ report.is_valid

TokenCategories ==
    {"MISSING_PRIMARY_COLOR", "MISSING_BORDER_RADIUS", "MISSING_FONT_FAMILY"}
ColourCategories ==
    {"UNAUTHORIZED_COLOR_FORMAT", "UNAUTHORISED_HEX_COLOR", "UNAUTHORISED_NAMED_COLOR"}
CategoryRank(cat) ==
    CASE cat \in TokenCategories -> 1
      [] cat \in ColourCategories -> 2
      [] cat = "INCOMPLETE_STRUCTURE" -> 3
      [] cat = "SYNTAX_ERROR" -> 4
      [] OTHER -> 0

IsPrefix(a, b) == Len(a) <= Len(b) /\ SubSeq(b, 1, Len(a)) = a

\* C6: the errors of the report are the outputs of validate_design_tokens,
\* validate_colors, validate_structure and validate_syntax, in this order and
\* each as its checker produced it; so no diagnostic of an earlier checker
\* follows one of a later checker, and while the report is built nothing
\* already in errors is dropped or moved.
C6_ErrorsInCheckerOrder ==
    /\ [](v_pc = "done" =>
            /\ report.errors = validate_design_tokens(code, tokens)
                                 \o validate_colors(code, tokens)
                                 \o validate_structure(code)
                                 \o validate_syntax(code)
            /\ \A j, k \in 1..Len(report.errors) :
                  j < k => CategoryRank(report.errors[j].cat)
                             <= CategoryRank(report.errors[k].cat)
            /\ \A k \in 1..Len(report.errors) : CategoryRank(report.errors[k].cat) > 0)
    /\ [][IsPrefix(v_errors, v_errors')]_vars

\* A returned report that holds diagnostics of all four checkers.
C6_Witness ==
    /\ v_pc = "done"
    /\ \A r \in 1..4 :
          \E k \in 1..Len(report.errors) : CategoryRank(report.errors[k].cat) = r

\* the texts quoted by the UNAUTHORISED_HEX_COLOR diagnostics, in order
HexTexts(ds) ==
    LET hex == SelectSeq(ds, LAMBDA d : d.cat = "UNAUTHORISED_HEX_COLOR")
    IN  [k \in 1..Len(hex) |-> hex[k].text]

\* the hex literals of the source that are not approved
DisallowedLiterals(c, t) ==
    {m \in Range(HexMatches(c, 0)) : normalise_hex(m) \notin NormalisedApproved(t)}

Injective(f) == \A j, k \in DOMAIN f : f[j] = f[k] => j = k

\* validate_colors has just returned: its diagnostics are the last in errors
ColoursChecked == v_pc = "structure"

\* C10 as stated: one UNAUTHORISED_HEX_COLOR diagnostic per distinct disallowed
\* literal text, the exact matched substring (case included) being the key.
C10_OnePerExactLiteral ==
    ColoursChecked =>
        /\ Injective(HexTexts(v_errors))
        /\ Range(HexTexts(v_errors)) = DisallowedLiterals(code, tokens)

\* the first literal of the source that is spelled like m up to letter case
FirstSpelling(c, m) ==
    LET ms == HexMatches(c, 0)
        k == CHOOSE j \in 1..Len(ms) :
                 /\ ToLower(ms[j]) = ToLower(m)
                 /\ \A h \in 1..(j - 1) : ToLower(ms[h]) # ToLower(m)
    IN  ms[k]

\* C10 as amended: one UNAUTHORISED_HEX_COLOR diagnostic per distinct disallowed
\* literal, the lower-cased matched substring being the key: literals that
\* differ only in letter case share one diagnostic, which quotes the first
\* spelling in the source; literals that differ otherwise get one each.
C10_OnePerLowercasedLiteral ==
    ColoursChecked =>
        LET texts == HexTexts(v_errors)
            lowered == [k \in 1..Len(texts) |-> ToLower(texts[k])]
        IN  /\ Injective(lowered)
            /\ Range(lowered) = {ToLower(m) : m \in DisallowedLiterals(code, tokens)}
            /\ \A k \in 1..Len(texts) : texts[k] = FirstSpelling(code, texts[k])

\* #ABC and #abc, both disallowed, in one source: one diagnostic.
C10_Witness ==
    /\ v_pc = "done"
    /\ {<<"#", "A", "B", "C">>, <<"#", "a", "b", "c">>} \subseteq DisallowedLiterals(code, tokens)
    /\ Len(HexTexts(v_errors)) = 1

\* needle occurs verbatim in hay, position by position
OccursIn(needle, hay) ==
    \E p \in 0..(Len(hay) - Len(needle)) :
        \A k \in 1..Len(needle) : hay[p + k] = needle[k]

SpacingUnused == tokens.spacing # <<>> /\ ~OccursIn(tokens.spacing, code)

\* C13: the returned report has exactly one warning, a SPACING_SUGGESTION
\* naming the spacing token, when that token is non-empty and does not occur
\* verbatim in the source, and no warning otherwise; no SPACING_SUGGESTION is
\* among the errors, and errors and is_valid are those of the same source
\* under a token set without a spacing value.
C13_OneSpacingWarning ==
    /\ [](v_pc = "done" =>
            /\ SpacingUnused =>
                  /\ Len(report.warnings) = 1
                  /\ report.warnings[1].cat = "SPACING_SUGGESTION"
                  /\ report.warnings[1].text = tokens.spacing
            /\ ~SpacingUnused => report.warnings = <<>>
            /\ \A k \in 1..Len(report.errors) : report.errors[k].cat # "SPACING_SUGGESTION"
            /\ report.errors = validate_component(code, WithoutSpacing(tokens)).errors
            /\ report.is_valid = (report.errors = <<>>))
    /\ [][v_warnings' # v_warnings => v_errors' = v_errors]_vars

\* A returned report that holds the warning next to errors.
C13_Witness ==
    /\ v_pc = "done"
    /\ SpacingUnused
    /\ Len(report.warnings) = 1
    /\ report.errors # <<>>
    /\ ~report.is_valid

StructureChecked == v_pc \in {"syntax", "warnings", "return", "done"}

\* the last character of the source that is not whitespace is "}"
EndsWithBrace(c) ==
    \E k \in 1..Len(c) :
        c[k] = "}" /\ \A j \in (k + 1)..Len(c) : c[j] \in Whitespace

TruncatedDiags(ds) ==
    {k \in 1..Len(ds) : ds[k].cat = "INCOMPLETE_STRUCTURE" /\ ds[k].kind = "truncated body"}

\* C17: validate_structure reports the truncated body, once, for exactly the
\* sources whose trimmed text does not end with "}", the empty source and the
\* sources of whitespace only among them.
C17_TruncatedUnlessClosingBrace ==
    StructureChecked =>
        /\ Cardinality(TruncatedDiags(v_errors)) <= 1
        /\ (TruncatedDiags(v_errors) # {}) <=> ~EndsWithBrace(code)

(***************************************************************************)
(* Claims about token sets with missing keys (checked under SpecPartial)   *)
(***************************************************************************)
MissingKeys == AllKeys \ DOMAIN tokens
SubscriptedKeys == {"primary_color", "secondary_color", "border_radius", "font_family"}
Returning == v_pc \in {"return", "done"}

\* C11 as stated: with a token set that lacks any of the five keys,
\* validate_component never gets to return a report.
C11_AnyMissingKeyRaises ==
    MissingKeys # {} => (~Returning /\ report = NoReport)

\* C11 as amended: with a token set that lacks primary_color, secondary_color,
\* border_radius or font_family, validate_component raises (from the token
\* check or, for secondary_color alone, from the colour check) and returns no
\* report; it raises for no other reason; a missing spacing key is tolerated
\* silently: the call returns the report of the same source under an empty
\* spacing value, which has no warning.
C11_MissingSubscriptedKeyRaises ==
    /\ []((MissingKeys \cap SubscriptedKeys # {}) =>
             /\ ~Returning /\ report = NoReport
             /\ v_pc \in {"tokens", "colors", "raised"})
    /\ [][(/\ v_pc \in {"tokens", "colors"}
            /\ MissingKeys \cap SubscriptedKeys # {}
            /\ (v_pc = "tokens" => MissingKeys \cap SubscriptedKeys # {"secondary_color"}))
              => v_pc' = "raised"]_vars
    /\ [](v_pc = "raised" => MissingKeys \cap SubscriptedKeys # {})
    /\ []((v_pc = "done" /\ MissingKeys = {"spacing"}) =>
             /\ report.warnings = <<>>
             /\ report = validate_component(code, [k \in AllKeys |->
                                IF k = "spacing" THEN <<>> ELSE tokens[k]]))

\* The colour check raised for a missing secondary_color after the token check
\* had put its diagnostics into errors.
C11_Witness ==
    /\ v_pc = "raised"
    /\ MissingKeys = {"secondary_color"}
    /\ v_errors # <<>>
    /\ report = NoReport

(***************************************************************************)
(* Claims about _normalise_hex (checked under SpecHex)                     *)
(***************************************************************************)
\* C14: normalising a normalised literal changes nothing, a 3-digit literal
\* and its 6-digit expansion have the same normal form, and the normal forms
\* of "#fff" and "#ffffff" are equal.
C14_NormaliseIdempotent ==
    /\ h_pc \in {"expansion", "done"} => h_twice = h_once
    /\ (h_pc = "done" /\ Len(h_in) = 4) => h_expanded = h_once
    /\ normalise_hex(<<"#", "f", "f", "f">>) = normalise_hex(<<"#", "f", "f", "f", "f", "f", "f">>)

\* A 3-digit literal with mixed letter case and three different digits has
\* been normalised twice, and so has its expansion.
C14_Witness ==
    /\ h_pc = "done"
    /\ h_in = <<"#", "F", "a", "0">>
    /\ h_once = <<"#", "f", "f", "a", "a", "0", "0">>
    /\ h_twice = h_once
    /\ h_expanded = h_once

(***************************************************************************)
(* Claims about run_agent_loop (checked under SpecLoop)                    *)
(***************************************************************************)
Finished == l_pc \in {"returned", "raised"}

\* the statements still ahead: those of the attempt in progress (an attempt
\* is at most 11 statements long) and those of the attempts left
Position ==
    CASE l_pc = "generate" -> 11
      [] l_pc = "regenerate" -> 10
      [] l_pc = "validate" -> 9
      [] l_pc = "validating" ->
            (CASE v_pc = "tokens" -> 8
               [] v_pc = "colors" -> 7
               [] v_pc = "structure" -> 6
               [] v_pc = "syntax" -> 5
               [] v_pc = "warnings" -> 4
               [] v_pc = "return" -> 3
               [] OTHER -> 2)
      [] l_pc = "loop_head" -> 1
      [] OTHER -> 0
Remaining == (max_retries - attempt) * 11 + Position

\* the guards of the loop's statements: one of them holds
Runnable ==
    \/ l_pc \in {"generate", "regenerate", "validate"}
    \/ l_pc = "validating" /\ v_pc \in {"tokens", "colors", "structure", "syntax", "warnings", "return"}
    \/ l_pc = "validating" /\ v_pc = "done" /\ (IsAccepted(report) \/ ~IsAccepted(report))
    \/ l_pc = "loop_head" /\ (\/ HasRetryLeft(attempt + 1, max_retries)
                              \/ ~HasRetryLeft(attempt + 1, max_retries))

\* C7: at most one generate_component call and at most max_retries
\* regenerate_component calls are made, every generated source is validated
\* exactly once (a validation is pending only between a generation and the
\* validate_component call that follows it), and the loop ends: until it has
\* returned or raised a statement can run, and every statement that runs
\* lowers a natural number, the count of the statements that remain.
C7_BoundedCalls ==
    /\ [](/\ n_generate <= 1
          /\ n_regenerate <= max_retries
          /\ l_pc = "generate" => n_generate = 0 /\ n_regenerate = 0 /\ n_validate = 0
          /\ l_pc = "validate" => n_validate + 1 = n_generate + n_regenerate
          /\ l_pc \in {"validating", "loop_head", "regenerate", "returned"} =>
                n_generate = 1 /\ n_validate = n_generate + n_regenerate
          /\ l_pc = "raised" => n_validate = n_generate + n_regenerate
          /\ Remaining \in Nat
          /\ Finished \/ Runnable)
    /\ [][n_validate' # n_validate =>
              n_validate' = n_validate + 1 /\ l_pc = "validate" /\ l_pc' = "validating"]_vars
    /\ [][Remaining' < Remaining]_vars

\* The loop returned after the default number of retries, all used.
C7_Witness ==
    /\ l_pc = "returned"
    /\ max_retries = MAX_RETRIES
    /\ n_generate = 1 /\ n_regenerate = MAX_RETRIES /\ n_validate = MAX_RETRIES + 1

\* C8: regenerate_component is called only after a report with is_valid false
\* and with fewer than max_retries regenerations made, and gets the last
\* generated source and the errors of that source's report; a report with
\* is_valid true makes the loop return its source at once, whatever the
\* warnings, and nothing runs after the return.
C8_RetryOnlyOnFailure ==
    /\ [][n_regenerate' # n_regenerate =>
              /\ n_regenerate' = n_regenerate + 1
              /\ ~report.is_valid
              /\ n_regenerate < max_retries
              /\ report = validate_component(code, tokens)
              /\ regen_args' = [original_code |-> code, errors |-> report.errors] ]_vars
    /\ [][(l_pc = "validating" /\ v_pc = "done" /\ report.is_valid) =>
              /\ l_pc' = "returned"
              /\ result' = <<code>>
              /\ code' = code
              /\ UNCHANGED counters ]_vars
    /\ [][l_pc # "returned"]_vars

\* The loop returned a source with a warning after one retry, a retry being left.
C8_Witness ==
    /\ l_pc = "returned"
    /\ report.is_valid
    /\ report.warnings # <<>>
    /\ n_regenerate = 1
    /\ max_retries > 1

Exhaustion == l_pc = "returned" /\ ~report.is_valid

\* C9 as stated: on exhaustion the loop returns the last generated source
\* along with that source's error list.
C9_ReturnsSourceWithErrors ==
    Exhaustion => result = <<code, report.errors>>

\* C9 as amended: when every validation failed and the retry budget is used
\* up, the loop returns, without raising, the last generated source and
\* nothing else; that source's error list is not returned: it is written to
\* stderr when verbose is set.
C9_ExhaustedReturnsLastSource ==
    /\ [](Exhaustion =>
            /\ result = <<code>>
            /\ n_regenerate = max_retries
            /\ report = validate_component(code, tokens)
            /\ report.errors # <<>>
            /\ verbose => stderr[Len(stderr)].items = report.errors
            /\ ~verbose => stderr = <<>>)
    /\ [][(l_pc = "loop_head" /\ n_regenerate = max_retries) =>
              l_pc' = "returned" /\ result' = <<code>> /\ code' = code]_vars
    /\ [][code' # code => n_generate' + n_regenerate' = n_generate + n_regenerate + 1]_vars

\* The loop used both retries and returned a source that has errors.
C9_Witness ==
    /\ Exhaustion
    /\ max_retries = MAX_RETRIES
    /\ n_regenerate = MAX_RETRIES
    /\ regen_args.original_code # code
    /\ report.errors # <<>>

====
